---- MODULE Spec2Model ----
(***************************************************************************)
(* State-machine model of shogun's CSingleLaplaceInferenceMethod and its   *)
(* Newton mode finder (src/shogun/machine/gp/SingleLaplaceInferenceMethod   *)
(* .cpp).                                                                  *)
(*                                                                         *)
(* Numbers.  float64_t values live on the integer grid; a division rounds  *)
(* to the grid (floor), as a floating-point division rounds to the nearest *)
(* representable value.  NaN and INFTY are two reserved values with the    *)
(* IEEE-754 rules the code relies on: NaN propagates through arithmetic    *)
(* and every ordered comparison with NaN is false.                         *)
(* The objective Psi = alpha'(f-m)/2 - sum(lp) is carried in units of 1/2  *)
(* (PsiOf returns 2*Psi) so that the halving stays exact; every Psi-valued *)
(* variable (m_Psi, Psi_Old, Psi_New, min_ret) and every log-probability   *)
(* uses that unit.  Derivatives of the log-probability are in units of 1.  *)
(* The model is fixed to two training points (Idx); vectors are sequences  *)
(* and matrices are sequences of rows.                                     *)
(***************************************************************************)
EXTENDS Integers, Sequences, FiniteSets, TLC

\* ------------------------------------------------------------ bounds
\* cap on Newton iterations (m_iter, default 20 in init())
m_iter == 2
\* entries of alpha the line search / first-order minimizer may reach
AlphaBox == 2
\* number of times the outer optimizer makes the object retrain: by changing
\* a hyperparameter, or by calling update() on unchanged hyperparameters
MaxChanges == 1
\* number of steps the generic first-order minimizer takes
MaxFoSteps == 1

\* ------------------------------------------------------------ floats
NaN == -999999
INFTY == 999999

Idx == {1, 2}

IsNaN(x) == x = NaN
Finite(x) == x # NaN /\ x # INFTY
FAdd(x, y) == IF IsNaN(x) \/ IsNaN(y) THEN NaN
              ELSE IF x = INFTY \/ y = INFTY THEN INFTY ELSE x + y
FNeg(x) == IF IsNaN(x) THEN NaN ELSE -x
\* x - y; INFTY - INFTY is NaN
FSub(x, y) == IF IsNaN(x) \/ IsNaN(y) THEN NaN
              ELSE IF x = INFTY THEN (IF y = INFTY THEN NaN ELSE INFTY)
              ELSE x - y
FMul(x, y) == IF IsNaN(x) \/ IsNaN(y) THEN NaN ELSE x * y
\* x / y rounded to the grid; a zero divisor poisons the result
FDiv(x, y) == IF IsNaN(x) \/ IsNaN(y) \/ y = 0 THEN NaN ELSE x \div y
FGt(x, y) == ~IsNaN(x) /\ ~IsNaN(y) /\ x > y
FLt(x, y) == ~IsNaN(x) /\ ~IsNaN(y) /\ x < y
FAbs(x) == IF IsNaN(x) THEN NaN ELSE IF x < 0 THEN -x ELSE x
\* sqrt rounded down to the grid; sqrt of a negative number is NaN
FSqrt(x) == IF IsNaN(x) \/ x < 0 THEN NaN
            ELSE CHOOSE r \in 0..x : r * r <= x /\ (r + 1) * (r + 1) > x

\* ------------------------------------------------------------ vectors, matrices
Vec(a, b) == <<a, b>>
ZeroVec == Vec(0, 0)
NaNVec == Vec(NaN, NaN)
HasNaN(v) == \E i \in Idx : IsNaN(v[i])
VAdd(u, v) == [i \in 1..2 |-> FAdd(u[i], v[i])]
VSub(u, v) == [i \in 1..2 |-> FSub(u[i], v[i])]
VMul(u, v) == [i \in 1..2 |-> FMul(u[i], v[i])]
VScale(c, v) == [i \in 1..2 |-> FMul(c, v[i])]
VNeg(v) == [i \in 1..2 |-> FNeg(v[i])]
VSqrt(v) == [i \in 1..2 |-> FSqrt(v[i])]
VSum(v) == FAdd(v[1], v[2])
Dot(u, v) == VSum(VMul(u, v))
\* Eigen minCoeff(); NaN when an entry is NaN
MinCoeff(v) == IF HasNaN(v) THEN NaN ELSE IF v[1] < v[2] THEN v[1] ELSE v[2]

Identity == <<Vec(1, 0), Vec(0, 1)>>
MAdd(A, B) == [i \in 1..2 |-> VAdd(A[i], B[i])]
MNeg(A) == [i \in 1..2 |-> VNeg(A[i])]
MScale(c, A) == [i \in 1..2 |-> VScale(c, A[i])]
MCwise(A, B) == [i \in 1..2 |-> VMul(A[i], B[i])]
Transpose(A) == [i \in 1..2 |-> [j \in 1..2 |-> A[j][i]]]
MatVec(A, v) == [i \in 1..2 |-> Dot(A[i], v)]
MatMul(A, B) == [i \in 1..2 |-> [j \in 1..2 |-> Dot(A[i], Transpose(B)[j])]]
\* v * v' (outer product)
Outer(u, v) == [i \in 1..2 |-> [j \in 1..2 |-> FMul(u[i], v[j])]]
\* v.asDiagonal()
AsDiagonal(v) == <<Vec(v[1], 0), Vec(0, v[2])>>
Diagonal(A) == Vec(A[1][1], A[2][2])
MSum(A) == FAdd(VSum(A[1]), VSum(A[2]))
RowSums(A) == [i \in 1..2 |-> VSum(A[i])]
ColSums(A) == RowSums(Transpose(A))
MHasNaN(A) == \E i \in Idx : HasNaN(A[i])
Det(A) == FSub(FMul(A[1][1], A[2][2]), FMul(A[1][2], A[2][1]))
\* FullPivLU::inverse(): adj(A)/det(A), each entry rounded to the grid
Inverse(A) ==
    LET d == Det(A)
    IN  <<Vec(FDiv(A[2][2], d), FDiv(FNeg(A[1][2]), d)),
          Vec(FDiv(FNeg(A[2][1]), d), FDiv(A[1][1], d))>>
\* LLT<MatrixXd>(B).matrixU(): upper factor U with U'U = B
MatrixU(B) ==
    LET u11 == FSqrt(B[1][1])
        u12 == FDiv(B[1][2], u11)
        u22 == FSqrt(FSub(B[2][2], FMul(u12, u12)))
    IN  <<Vec(u11, u12), Vec(0, u22)>>
\* LLT<MatrixXd>(B).solve(v): B^-1 v by Cramer's rule, rounded once
LLTSolve(B, v) ==
    LET d == Det(B)
    IN  Vec(FDiv(FSub(FMul(v[1], B[2][2]), FMul(B[1][2], v[2])), d),
            FDiv(FSub(FMul(B[1][1], v[2]), FMul(B[2][1], v[1])), d))

\* ------------------------------------------------------------ parameters
\* std::exp(log_scale * 2.0); log_scale is counted in units of ln(2)/2
ExpTwice(log_scale) == 2 ^ log_scale

\* convergence tolerance 1e-6: below the grid's resolution
m_tolerance == 0
\* upper end of the line-search interval [0, m_opt_max]
m_opt_max == 10

\* kernel matrices the kernel collaborator may return (symmetric, PSD)
Kernels == {Identity, <<Vec(2, 1), Vec(1, 2)>>}
\* mean vectors the mean-function collaborator may return
Means == {ZeroVec, Vec(1, 0)}
LogScales == {0, 1}
\* training labels
Labels == {Vec(2, -2), Vec(4, 0)}
\* likelihood collaborators: a Gaussian, a heavy-tailed Student's-t stand-in
\* (W < 0 in the tails) and a bimodal likelihood that is neither
Likelihoods == {"gaussian", "studentst", "bimodal"}
Minimizers == {"newton", "firstorder"}

Sgn(r) == IF r > 0 THEN 1 ELSE IF r < 0 THEN -1 ELSE 0
Abs(r) == IF r < 0 THEN -r ELSE r

\* CLikelihoodModel::get_model_type()
get_model_type(lik) == IF lik = "studentst" THEN "LT_STUDENTST" ELSE "LT_OTHER"
\* CStudentsTLikelihood::get_degrees_freedom()
get_degrees_freedom(lik) == 2

\* log p(y|f), in units of 1/2 like Psi, and its derivatives in f for one
\* point, r = f - y.  "gaussian" has unit noise variance.  "studentst" is
\* concave for |r| <= 1, has its inflection (d2lp = 0) at |r| = 2 and convex
\* tails beyond.  "bimodal" has a local minimum at r = 0.
Lp1(lik, r) ==
    CASE lik = "gaussian" -> -(r * r)
      [] lik = "studentst" -> IF Abs(r) <= 1 THEN -(r * r) ELSE 4 - 4 * Abs(r)
      [] lik = "bimodal" -> -((Abs(r) - 1) * (Abs(r) - 1))
Dlp1(lik, r) ==
    CASE lik = "gaussian" -> -r
      [] lik = "studentst" -> IF Abs(r) <= 1 THEN -r ELSE -2 * Sgn(r)
      [] lik = "bimodal" -> -(Abs(r) - 1) * Sgn(r)
D2lp1(lik, r) ==
    CASE lik = "gaussian" -> -1
      [] lik = "studentst" -> IF Abs(r) <= 1 THEN -1 ELSE IF Abs(r) = 2 THEN 0 ELSE 4
      [] lik = "bimodal" -> IF r = 0 THEN 4 ELSE -1
D3lp1(lik, r) ==
    CASE lik = "gaussian" -> 0
      [] lik = "studentst" -> IF Abs(r) <= 1 THEN 0 ELSE -Sgn(r)
      [] lik = "bimodal" -> 0

\* CLikelihoodModel::get_log_probability_f(lab, f)
get_log_probability_f(lik, y, f) ==
    [i \in 1..2 |-> IF IsNaN(f[i]) THEN NaN ELSE Lp1(lik, f[i] - y[i])]
\* CLikelihoodModel::get_log_probability_derivative_f(lab, f, order)
get_log_probability_derivative_f(lik, y, f, order) ==
    [i \in 1..2 |->
        IF IsNaN(f[i]) THEN NaN
        ELSE CASE order = 1 -> Dlp1(lik, f[i] - y[i])
               [] order = 2 -> D2lp1(lik, f[i] - y[i])
               [] order = 3 -> D3lp1(lik, f[i] - y[i])]

\* K * exp(2 log_scale)
ScaledK(K, log_scale) == MScale(ExpTwice(log_scale), K)
\* f = K * alpha * exp(2 log_scale) + m
MuOf(K, log_scale, alpha, mean) == VAdd(MatVec(ScaledK(K, log_scale), alpha), mean)
\* psi = alpha'(f - m)/2 - sum(lp), in units of 1/2
PsiOf(lik, y, alpha, f, mean) ==
    FSub(Dot(alpha, VSub(f, mean)), VSum(get_log_probability_f(lik, y, f)))

\* ------------------------------------------------------------ line search
InBox(v) == HasNaN(v) \/ \A i \in Idx : Abs(v[i]) <= AlphaBox

\* start_alpha + x*dalpha.  The step x is counted in halves, so that the
\* line search can stop short of a full Newton step
StepAlpha(func, x) ==
    VAdd(func.start_alpha, [i \in 1..2 |-> FDiv(FMul(x, func.dalpha[i]), 2)])
\* PsiLine::operator()(x): the objective at start_alpha + x*dalpha; the
\* evaluation writes alpha, f, dlp and W of the inference object
PsiLine(func, x) ==
    LET alpha == StepAlpha(func, x)
        f == MuOf(func.K, func.log_scale, alpha, func.m)
    IN  [alpha |-> alpha,
         f |-> f,
         dlp |-> get_log_probability_derivative_f(func.lik, func.lab, f, 1),
         W |-> VNeg(get_log_probability_derivative_f(func.lik, func.lab, f, 2)),
         result |-> PsiOf(func.lik, func.lab, alpha, f, func.m)]

\* the points of [0, m_opt_max] a line search may evaluate: those whose
\* alpha lies on the grid and in the box; of the points that give one and
\* the same alpha the lowest stands for all
OnGrid(func, x) ==
    \A i \in Idx : IsNaN(func.dalpha[i]) \/ (x * func.dalpha[i]) % 2 = 0
Candidates(func) ==
    {x \in 0..(2 * m_opt_max) :
        /\ OnGrid(func, x)
        /\ InBox(StepAlpha(func, x))
        /\ \A x2 \in 0..(x - 1) : OnGrid(func, x2) => StepAlpha(func, x2) # StepAlpha(func, x)}
\* the evaluation orders of one local_min() run.  What a run reports and
\* leaves behind is fixed by the point it reports and the point it evaluates
\* last, so orders of one or two points stand for all longer ones
EvalOrders(func) ==
    {<<l>> : l \in Candidates(func)}
        \cup {<<b, l>> : b \in Candidates(func), l \in Candidates(func)}
\* index of the evaluation local_min() reports: the lowest value, the latest
\* one among equals
BestEval(func, xs) ==
    CHOOSE i \in 1..Len(xs) :
        /\ \A j \in 1..Len(xs) : ~FLt(PsiLine(func, xs[j]).result, PsiLine(func, xs[i]).result)
        /\ \A j \in (i + 1)..Len(xs) : FLt(PsiLine(func, xs[i]).result, PsiLine(func, xs[j]).result)
\* local_min(0, m_opt_max, m_opt_tolerance, func, x): evaluates func at the
\* points xs in order; returns the minimum found and the point x reaching it,
\* and leaves behind the writes of the last evaluation
local_min(func, xs) ==
    LET best == xs[BestEval(func, xs)]
    IN  [x |-> best,
         fx |-> PsiLine(func, best).result,
         left |-> PsiLine(func, xs[Len(xs)])]

\* ------------------------------------------------------------ Newton step
\* the loop condition with the cap taken one iteration early
LoopCond_CapEarly(psi_old, psi_new, it) ==
    FGt(FSub(psi_old, psi_new), m_tolerance) /\ it < m_iter - 1
\* while (Psi_Old-Psi_New>m_tolerance && iter<m_iter)
LoopCond(psi_old, psi_new, it) ==
    FGt(FSub(psi_old, psi_new), m_tolerance) /\ it < m_iter
\* the warning condition without the test of the decrease
WarnCond_CapOnly(psi_old, psi_new, it) == it >= m_iter
\* if (Psi_Old-Psi_New>m_tolerance && iter>=m_iter) SG_SWARNING(...)
WarnCond(psi_old, psi_new, it) ==
    FGt(FSub(psi_old, psi_new), m_tolerance) /\ it >= m_iter
\* if (eigen_W.minCoeff() < 0) eigen_W += (2.0/df)*dlp.cwiseProduct(dlp)
Regularize(lik, W, dlp) ==
    IF FLt(MinCoeff(W), 0)
    THEN LET df == IF get_model_type(lik) = "LT_STUDENTST"
                   THEN get_degrees_freedom(lik) ELSE 1
         IN  VAdd(W, VScale(FDiv(2, df), VMul(dlp, dlp)))
    ELSE W
\* dalpha = b - sW.*(L.solve(sW.*(K*b*scale^2))) - alpha, L = LLT(sW*sW'.*K*scale^2 + I)
NewtonDirection(K, log_scale, W, sW, dlp, mu, mean, alpha) ==
    LET Ks == ScaledK(K, log_scale)
        B == MAdd(MCwise(Outer(sW, sW), Ks), Identity)
        b == VAdd(VMul(W, VSub(mu, mean)), dlp)
    IN  VSub(VSub(b, VMul(sW, LLTSolve(B, VMul(sW, MatVec(Ks, b))))), alpha)

\* ------------------------------------------------------------ update_init
\* update_init() keeping the stored alpha whatever Psi the zero start gives
update_init_KeepAlpha(lik, y, K, log_scale, mean, alpha) ==
    IF Len(alpha) # Len(y)
    THEN [alpha |-> ZeroVec, mu |-> mean,
          Psi |-> FNeg(VSum(get_log_probability_f(lik, y, mean)))]
    ELSE [alpha |-> alpha, mu |-> MuOf(K, log_scale, alpha, mean),
          Psi |-> PsiOf(lik, y, alpha, MuOf(K, log_scale, alpha, mean), mean)]
\* the state update_init() leaves: alpha, mu and Psi
update_init_result(lik, y, K, log_scale, mean, alpha) ==
    IF Len(alpha) # Len(y)
    THEN [alpha |-> ZeroVec, mu |-> mean,
          Psi |-> FNeg(VSum(get_log_probability_f(lik, y, mean)))]
    ELSE LET mu == MuOf(K, log_scale, alpha, mean)
             Psi_New == PsiOf(lik, y, alpha, mu, mean)
             Psi_Def == FNeg(VSum(get_log_probability_f(lik, y, mean)))
         IN  IF FLt(Psi_Def, Psi_New)
             THEN [alpha |-> ZeroVec, mu |-> mean, Psi |-> Psi_Def]
             ELSE [alpha |-> alpha, mu |-> mu, Psi |-> Psi_New]

\* ------------------------------------------------------------ update_alpha
\* the closing lines of update_alpha() without the amplitude: f = K * alpha + mean_f
update_alpha_mu_Unscaled(K, log_scale, alpha, mean_f) == VAdd(MatVec(K, alpha), mean_f)
\* the closing lines of update_alpha(): f = K * alpha * scale^2 + mean_f
update_alpha_mu(K, log_scale, alpha, mean_f) == MuOf(K, log_scale, alpha, mean_f)

\* get_psi_wrt_alpha(): Psi at m_alpha, with f held in a local vector
get_psi_wrt_alpha(lik, y, K, log_scale, alpha, mean_f) ==
    PsiOf(lik, y, alpha, MuOf(K, log_scale, alpha, mean_f), mean_f)
\* get_gradient_wrt_alpha(): K * (alpha - dlp(f)) * scale^2
get_gradient_wrt_alpha(lik, y, K, log_scale, alpha, mean_f) ==
    LET f == MuOf(K, log_scale, alpha, mean_f)
        dlp_f == get_log_probability_derivative_f(lik, y, f, 1)
    IN  MatVec(K, VScale(ExpTwice(log_scale), VSub(alpha, dlp_f)))
\* divisors by which the first-order minimizer scales a gradient step
StepDivisors == {2, 4}

\* ------------------------------------------------------------ update_chol
\* I + K*scale^2*diag(d): the matrix the indefinite branch factorizes by LU
IndefiniteA(K, log_scale, d) ==
    MAdd(Identity, MatMul(ScaledK(K, log_scale), AsDiagonal(d)))
\* post.sW = sqrt(abs(W)).*sign(W)
SignedSqrt(W) ==
    [i \in 1..2 |-> FSub(FSqrt(FDiv(FAdd(FAbs(W[i]), W[i]), 2)),
                         FSqrt(FDiv(FSub(FAbs(W[i]), W[i]), 2)))]
\* update_chol(), line 398: if (eigen_W.minCoeff()>0) sW = sqrt(W)
chol_sW(W) == IF FGt(MinCoeff(W), 0) THEN VSqrt(W) ELSE SignedSqrt(W)
\* the test of line 411 with the boundary min(W) = 0 on the LU side
chol_indefinite_Boundary(W) == ~FGt(MinCoeff(W), 0)
\* update_chol(), line 411: if (eigen_W.minCoeff() < 0) -> LU inverse
chol_indefinite(W) == FLt(MinCoeff(W), 0)
\* get_negative_log_marginal_likelihood(), line 340
nlml_indefinite(W) == FLt(MinCoeff(W), 0)
\* update_deriv(), line 577
deriv_indefinite(W) == FLt(MinCoeff(W), 0)

\* the state update_chol() leaves
update_chol_result(lik, y, K, log_scale, mu) ==
    LET dlp == get_log_probability_derivative_f(lik, y, mu, 1)
        d2lp == get_log_probability_derivative_f(lik, y, mu, 2)
        d3lp == get_log_probability_derivative_f(lik, y, mu, 3)
        W == VNeg(d2lp)
        sW == chol_sW(W)
    IN  [dlp |-> dlp, d2lp |-> d2lp, d3lp |-> d3lp, W |-> W, sW |-> sW,
         branch |-> IF chol_indefinite(W) THEN "lu" ELSE "chol",
         L |-> IF chol_indefinite(W)
               THEN MatMul(AsDiagonal(W), MNeg(Inverse(IndefiniteA(K, log_scale, W))))
               ELSE MatrixU(MAdd(MCwise(Outer(sW, sW), ScaledK(K, log_scale)), Identity))]

\* ------------------------------------------------------------ marginal likelihood
\* get_negative_log_marginal_likelihood() after its dirty check.  The result
\* is (quad - lp + log(logarg))/2; the logarithm is not taken on the grid, so
\* the three parts are returned.  logarg is det(A) in the indefinite branch
\* and prod(diag(L))^2 in the Cholesky branch.
nlml_result(lik, y, K, log_scale, mean, alpha, mu, W, sW, L) ==
    LET quad == Dot(alpha, VSub(mu, mean))
        lp == VSum(get_log_probability_f(lik, y, mu))
    IN  IF nlml_indefinite(W)
        THEN [branch |-> "lu", quad |-> quad, lp |-> lp,
              logarg |-> Det(IndefiniteA(K, log_scale, sW))]
        ELSE [branch |-> "chol", quad |-> quad, lp |-> lp,
              logarg |-> FMul(FMul(L[1][1], L[2][2]), FMul(L[1][1], L[2][2]))]

\* ------------------------------------------------------------ update_deriv
\* T.solve(M) for a triangular T
TriSolve(T, M) == MatMul(Inverse(T), M)
VHalf(v) == [i \in 1..2 |-> FDiv(v[i], 2)]
\* the state update_deriv() leaves: Z, g and dfhat
update_deriv_result(K, log_scale, W, sW, d3lp, L) ==
    LET Ks == ScaledK(K, log_scale)
        r == IF deriv_indefinite(W)
             THEN [branch |-> "lu", Z |-> MNeg(L),
                   g |-> VHalf(RowSums(MCwise(Inverse(IndefiniteA(K, log_scale, W)), Ks)))]
             ELSE LET C == TriSolve(Transpose(L), MatMul(AsDiagonal(sW), Ks))
                  IN  [branch |-> "chol",
                       Z |-> MatMul(AsDiagonal(sW),
                                    TriSolve(L, TriSolve(Transpose(L), AsDiagonal(sW)))),
                       g |-> VHalf(VSub(Diagonal(Ks), ColSums(MCwise(C, C))))]
    IN  [branch |-> r.branch, Z |-> r.Z, g |-> r.g, dfhat |-> VMul(r.g, d3lp)]

\* ------------------------------------------------------------ gradients
\* dnlZ = sum(Z.*dK)/2 - alpha'*dK*alpha/2 - dfhat'*(b - K*scale^2*(Z*b)), b = dK*dlp
dnlZ_wrt_dK(K, log_scale, dK, Z, dfhat, dlp, alpha) ==
    LET b == MatVec(dK, dlp)
    IN  FSub(FSub(FDiv(MSum(MCwise(Z, dK)), 2),
                  FDiv(Dot(MatVec(Transpose(dK), alpha), alpha), 2)),
             Dot(dfhat, VSub(b, MatVec(ScaledK(K, log_scale), MatVec(Z, b)))))
\* get_derivative_wrt_kernel(): one-element parameter with gradient dK
get_derivative_wrt_kernel(K, log_scale, dK, Z, dfhat, dlp, alpha) ==
    FMul(dnlZ_wrt_dK(K, log_scale, dK, Z, dfhat, dlp, alpha), ExpTwice(log_scale))
\* get_derivative_wrt_inference_method(): dK = K, times 2*scale^2
get_derivative_wrt_inference_method(K, log_scale, Z, dfhat, dlp, alpha) ==
    FMul(dnlZ_wrt_dK(K, log_scale, K, Z, dfhat, dlp, alpha), ExpTwice(log_scale) * 2)
\* CLikelihoodModel::get_first/second/third_derivative(lab, f, param) for a
\* parameter that multiplies the log-likelihood
lik_param_derivative(lik, y, f, order) ==
    IF order = 1 THEN get_log_probability_f(lik, y, f)
    ELSE get_log_probability_derivative_f(lik, y, f, order - 1)
\* get_derivative_wrt_likelihood_model()
get_derivative_wrt_likelihood_model(lik, y, K, log_scale, Z, g, dfhat, mu) ==
    LET lp_dhyp == lik_param_derivative(lik, y, mu, 1)
        dlp_dhyp == lik_param_derivative(lik, y, mu, 2)
        d2lp_dhyp == lik_param_derivative(lik, y, mu, 3)
        b == MatVec(K, dlp_dhyp)
    IN  FSub(FSub(FNeg(Dot(g, d2lp_dhyp)), VSum(lp_dhyp)),
             Dot(dfhat, VSub(b, MatVec(ScaledK(K, log_scale), MatVec(Z, b)))))
\* get_derivative_wrt_mean(): one-element parameter with derivative dmu
get_derivative_wrt_mean(K, log_scale, dmu, Z, dfhat, alpha) ==
    FSub(FNeg(Dot(alpha, dmu)),
         Dot(dfhat, VSub(dmu, MatVec(ScaledK(K, log_scale), MatVec(Z, dmu)))))

\* ------------------------------------------------------------ state
VARIABLES
    \* collaborators and hyperparameters
    m_labels, m_model, m_minimizer, m_kernel, m_mean, m_log_scale,
    \* cached inputs
    m_ktrtr, m_mean_f, m_hash,
    \* mode state
    m_alpha, m_mu, m_W, m_sW, m_dlp, m_d2lp, m_d3lp, m_Psi,
    \* posterior factor and the branch that built it
    m_L, L_branch,
    \* gradient auxiliaries, the branch that built them, and their flag
    m_Z, m_g, m_dfhat, Z_branch, m_gradient_update,
    \* minimize(): its locals, the last line search, its outcome
    Psi_Old, Psi_New, iter, func, x, warned, min_ret,
    \* control: position, pending public call, last value returned
    pc, caller, ret,
    \* bookkeeping: hyperparameter changes made, first-order steps taken,
    \* whether the mode / the gradient auxiliaries stem from the current
    \* hyperparameters and mode
    changes, fo_steps, mode_current, deriv_current

inputs == <<m_labels, m_model, m_minimizer>>
hypers == <<m_kernel, m_mean, m_log_scale>>
cached == <<m_ktrtr, m_mean_f>>
mode == <<m_alpha, m_mu, m_W, m_sW, m_dlp>>
chol == <<m_d2lp, m_d3lp, m_L, L_branch>>
deriv == <<m_Z, m_g, m_dfhat, Z_branch>>
locals == <<Psi_Old, Psi_New, iter, func, x, warned, min_ret>>
vars == <<inputs, hypers, cached, m_hash, mode, m_Psi, chol, deriv, m_gradient_update,
          locals, pc, caller, ret, changes, fo_steps, mode_current, deriv_current>>

\* the object after construction: empty vectors and matrices, m_Psi = 0,
\* and an identity-kernel, zero-mean, log_scale = 0 configuration
NoFunc == [start_alpha |-> <<>>, dalpha |-> <<>>]
NoRet == [call |-> "none", val |-> <<>>, branch |-> "none", fresh |-> TRUE]
Init ==
    /\ m_labels \in Labels
    /\ m_model \in Likelihoods
    /\ m_minimizer \in Minimizers
    /\ m_kernel = Identity /\ m_mean = ZeroVec /\ m_log_scale = 0
    /\ m_ktrtr = <<>> /\ m_mean_f = <<>>
    /\ m_hash = [kernel |-> <<>>, mean |-> <<>>, log_scale |-> 0]
    /\ m_alpha = <<>> /\ m_mu = <<>> /\ m_W = <<>> /\ m_sW = <<>> /\ m_dlp = <<>>
    /\ m_d2lp = <<>> /\ m_d3lp = <<>> /\ m_Psi = 0
    /\ m_L = <<>> /\ L_branch = "none"
    /\ m_Z = <<>> /\ m_g = <<>> /\ m_dfhat = <<>> /\ Z_branch = "none"
    /\ m_gradient_update = FALSE
    /\ Psi_Old = 0 /\ Psi_New = 0 /\ iter = 0 /\ func = NoFunc /\ x = 0
    /\ warned = FALSE /\ min_ret = 0
    /\ pc = "idle" /\ caller = "none" /\ ret = NoRet
    /\ changes = 0 /\ fo_steps = 0
    /\ mode_current = FALSE /\ deriv_current = FALSE

\* CInference::parameter_hash_changed()
parameter_hash_changed ==
    m_hash # [kernel |-> m_kernel, mean |-> m_mean, log_scale |-> m_log_scale]
\* CInference::update_parameter_hash()
update_parameter_hash ==
    m_hash' = [kernel |-> m_kernel, mean |-> m_mean, log_scale |-> m_log_scale]

\* ------------------------------------------------------------ callers
\* the outer optimizer sets a kernel, mean or amplitude hyperparameter
SetHyper ==
    /\ pc = "idle" /\ changes < MaxChanges
    /\ \/ \E K \in Kernels \ {m_kernel} : m_kernel' = K /\ UNCHANGED <<m_mean, m_log_scale>>
       \/ \E m \in Means \ {m_mean} : m_mean' = m /\ UNCHANGED <<m_kernel, m_log_scale>>
       \/ \E l \in LogScales \ {m_log_scale} : m_log_scale' = l /\ UNCHANGED <<m_kernel, m_mean>>
    /\ changes' = changes + 1
    /\ mode_current' = FALSE /\ deriv_current' = FALSE
    /\ ret' = NoRet
    /\ UNCHANGED <<inputs, cached, m_hash, mode, m_Psi, chol, deriv, m_gradient_update,
                   locals, pc, caller, fo_steps>>

\* entry of a public call.  update() always recomputes (a recomputation
\* nothing asked for counts as a retraining);
\* get_negative_log_marginal_likelihood(), get_diagonal_vector() and
\* get_posterior_mean() (through compute_gradient()) recompute when
\* parameter_hash_changed().  On changed parameters the four calls run the
\* same update() before they differ, so the model records that one of them
\* is pending ("any") and which one it was shows at its return
PublicCalls == {"update", "nlml", "diag", "posterior_mean"}
\* the entry of a public call without the test of the hash: every call
\* runs update()
Call_NoCheck(c) ==
    /\ pc = "idle"
    /\ caller' = IF parameter_hash_changed THEN "any" ELSE c
    /\ pc' = "update_init"
    /\ IF ~parameter_hash_changed
       THEN changes < MaxChanges /\ changes' = changes + 1
       ELSE UNCHANGED changes
    /\ ret' = NoRet
    /\ UNCHANGED <<inputs, hypers, cached, m_hash, mode, m_Psi, chol, deriv,
                   m_gradient_update, locals, fo_steps,
                   mode_current, deriv_current>>
Call(c) ==
    /\ pc = "idle"
    /\ caller' = IF parameter_hash_changed THEN "any" ELSE c
    /\ pc' = IF c = "update" \/ parameter_hash_changed THEN "update_init" ELSE "ret"
    /\ IF c = "update" /\ ~parameter_hash_changed
       THEN changes < MaxChanges /\ changes' = changes + 1
       ELSE UNCHANGED changes
    /\ ret' = NoRet
    /\ UNCHANGED <<inputs, hypers, cached, m_hash, mode, m_Psi, chol, deriv,
                   m_gradient_update, locals, fo_steps,
                   mode_current, deriv_current>>

\* ------------------------------------------------------------ update()
\* update(), first part: CInference::update() refreshes the cached kernel
\* matrix, then update_init()
UpdateInit ==
    /\ pc = "update_init"
    /\ LET r == update_init_result(m_model, m_labels, m_kernel, m_log_scale, m_mean, m_alpha)
       IN  /\ m_alpha' = r.alpha
           /\ m_mu' = r.mu
           /\ m_Psi' = r.Psi
    /\ m_ktrtr' = m_kernel
    /\ m_mean_f' = m_mean
    /\ pc' = "update_alpha"
    /\ UNCHANGED <<inputs, hypers, m_hash, m_W, m_sW, m_dlp, chol, deriv,
                   m_gradient_update, locals, caller, ret, changes, fo_steps,
                   mode_current, deriv_current>>

\* contents of a freshly allocated, unwritten vector
Uninitialized == {ZeroVec, NaNVec}

\* update_alpha() with the Newton optimizer: minimize() up to its loop
NewtonEnter ==
    /\ pc = "update_alpha" /\ m_minimizer = "newton"
    /\ Psi_Old' = INFTY
    /\ Psi_New' = m_Psi
    /\ m_W' = VNeg(get_log_probability_derivative_f(m_model, m_labels, m_mu, 2))
    /\ m_dlp' = get_log_probability_derivative_f(m_model, m_labels, m_mu, 1)
    /\ m_sW' \in Uninitialized
    /\ iter' = 0
    /\ func' = NoFunc /\ x' = 0 /\ warned' = FALSE
    /\ pc' = "newton"
    /\ UNCHANGED <<inputs, hypers, cached, m_hash, m_alpha, m_mu, m_Psi, chol, deriv,
                   m_gradient_update, min_ret, caller, ret, changes, fo_steps,
                   mode_current, deriv_current>>

\* one pass through the body of minimize()'s loop
NewtonIter ==
    /\ pc = "newton"
    /\ LoopCond(Psi_Old, Psi_New, iter)
    /\ Psi_Old' = Psi_New
    /\ iter' = iter + 1
    /\ \E W \in {Regularize(m_model, m_W, m_dlp)} :
       \E sW \in {VSqrt(W)} :
       \E dalpha \in {NewtonDirection(m_ktrtr, m_log_scale, W, sW, m_dlp,
                                      m_mu, m_mean_f, m_alpha)} :
       \E fn \in {[log_scale |-> m_log_scale, K |-> m_ktrtr, dalpha |-> dalpha,
                   start_alpha |-> m_alpha, m |-> m_mean_f,
                   lik |-> m_model, lab |-> m_labels]} :
          /\ m_sW' = sW
          /\ func' = [start_alpha |-> fn.start_alpha, dalpha |-> fn.dalpha]
          /\ \E xs \in EvalOrders(fn) :
             \E r \in {local_min(fn, xs)} :
                /\ x' = r.x
                /\ Psi_New' = r.fx
                /\ m_alpha' = r.left.alpha
                /\ m_mu' = r.left.f
                /\ m_dlp' = r.left.dlp
                /\ m_W' = r.left.W
    /\ UNCHANGED <<inputs, hypers, cached, m_hash, m_Psi, chol, deriv, m_gradient_update,
                   warned, min_ret, pc, caller, ret, changes, fo_steps,
                   mode_current, deriv_current>>

\* the loop has ended: minimize() warns and returns Psi_New, and
\* update_alpha() recomputes f
NewtonExit ==
    /\ pc = "newton"
    /\ ~LoopCond(Psi_Old, Psi_New, iter)
    /\ warned' = WarnCond(Psi_Old, Psi_New, iter)
    /\ min_ret' = Psi_New
    /\ m_mu' = update_alpha_mu(m_ktrtr, m_log_scale, m_alpha, m_mean_f)
    /\ pc' = "update_chol"
    /\ UNCHANGED <<inputs, hypers, cached, m_hash, m_alpha, m_W, m_sW, m_dlp, m_Psi,
                   chol, deriv, m_gradient_update, Psi_Old, Psi_New, iter, func, x,
                   caller, ret, changes, fo_steps, mode_current, deriv_current>>

\* update_alpha() with a generic FirstOrderMinimizer: the cost function is
\* set up and handed to the minimizer
FirstOrderEnter ==
    /\ pc = "update_alpha" /\ m_minimizer = "firstorder"
    /\ fo_steps' = 0
    /\ pc' = "firstorder"
    /\ UNCHANGED <<inputs, hypers, cached, m_hash, mode, m_Psi, chol, deriv,
                   m_gradient_update, locals, caller, ret, changes,
                   mode_current, deriv_current>>

\* one step of FirstOrderMinimizer::minimize(): it asks the cost function for
\* get_cost() and get_gradient() and writes the variable it obtained by
\* obtain_variable_reference(), which is m_alpha
FirstOrderStep ==
    /\ pc = "firstorder" /\ fo_steps < MaxFoSteps
    /\ LET cost == get_psi_wrt_alpha(m_model, m_labels, m_ktrtr, m_log_scale, m_alpha, m_mean_f)
           grad == get_gradient_wrt_alpha(m_model, m_labels, m_ktrtr, m_log_scale, m_alpha, m_mean_f)
       IN  \E d \in StepDivisors :
             LET next == VSub(m_alpha, [i \in 1..2 |-> FDiv(grad[i], d)])
             IN  /\ InBox(next)
                 /\ FLt(get_psi_wrt_alpha(m_model, m_labels, m_ktrtr, m_log_scale, next, m_mean_f), cost)
                 /\ m_alpha' = next
    /\ fo_steps' = fo_steps + 1
    /\ UNCHANGED <<inputs, hypers, cached, m_hash, m_mu, m_W, m_sW, m_dlp, m_Psi, chol,
                   deriv, m_gradient_update, locals, pc, caller, ret, changes,
                   mode_current, deriv_current>>

\* the minimizer returns, and update_alpha() recomputes f
FirstOrderExit ==
    /\ pc = "firstorder"
    /\ m_mu' = update_alpha_mu(m_ktrtr, m_log_scale, m_alpha, m_mean_f)
    /\ pc' = "update_chol"
    /\ UNCHANGED <<inputs, hypers, cached, m_hash, m_alpha, m_W, m_sW, m_dlp, m_Psi,
                   chol, deriv, m_gradient_update, locals, caller, ret, changes,
                   fo_steps, mode_current, deriv_current>>

\* update(), last part: update_chol(), m_gradient_update=false,
\* update_parameter_hash()
UpdateChol ==
    /\ pc = "update_chol"
    /\ LET r == update_chol_result(m_model, m_labels, m_ktrtr, m_log_scale, m_mu)
       IN  /\ m_dlp' = r.dlp /\ m_d2lp' = r.d2lp /\ m_d3lp' = r.d3lp
           /\ m_W' = r.W /\ m_sW' = r.sW
           /\ m_L' = r.L /\ L_branch' = r.branch
    /\ m_gradient_update' = FALSE
    /\ update_parameter_hash
    /\ mode_current' = TRUE /\ deriv_current' = FALSE
    /\ Psi_Old' = 0 /\ Psi_New' = 0 /\ iter' = 0 /\ func' = NoFunc /\ x' = 0
    /\ warned' = FALSE /\ min_ret' = 0 /\ fo_steps' = 0
    /\ pc' = "ret"
    /\ UNCHANGED <<inputs, hypers, cached, m_alpha, m_mu, m_Psi, deriv,
                   caller, ret, changes>>

\* ------------------------------------------------------------ returns
\* update() returns
RetUpdate ==
    /\ pc = "ret" /\ caller \in {"update", "any"}
    /\ ret' = [call |-> "update", val |-> <<>>, branch |-> "none", fresh |-> TRUE]
    /\ pc' = "idle" /\ caller' = "none"
    /\ UNCHANGED <<inputs, hypers, cached, m_hash, mode, m_Psi, chol, deriv,
                   m_gradient_update, locals, changes, fo_steps,
                   mode_current, deriv_current>>

\* get_negative_log_marginal_likelihood() after its dirty check
RetNlml ==
    /\ pc = "ret" /\ caller \in {"nlml", "any"}
    /\ LET r == nlml_result(m_model, m_labels, m_ktrtr, m_log_scale, m_mean,
                            m_alpha, m_mu, m_W, m_sW, m_L)
       IN  ret' = [call |-> "nlml", val |-> <<r.quad, r.lp, r.logarg>>,
                   branch |-> r.branch, fresh |-> mode_current]
    /\ pc' = "idle" /\ caller' = "none"
    /\ UNCHANGED <<inputs, hypers, cached, m_hash, mode, m_Psi, chol, deriv,
                   m_gradient_update, locals, changes, fo_steps,
                   mode_current, deriv_current>>

\* get_diagonal_vector() after its dirty check
RetDiag ==
    /\ pc = "ret" /\ caller \in {"diag", "any"}
    /\ ret' = [call |-> "diag", val |-> m_sW, branch |-> "none", fresh |-> mode_current]
    /\ pc' = "idle" /\ caller' = "none"
    /\ UNCHANGED <<inputs, hypers, cached, m_hash, mode, m_Psi, chol, deriv,
                   m_gradient_update, locals, changes, fo_steps,
                   mode_current, deriv_current>>

\* get_posterior_mean(): compute_gradient() after its dirty check runs
\* update_deriv() unless m_gradient_update is set, then mu - mean is returned
RetPosteriorMean ==
    /\ pc = "ret" /\ caller \in {"posterior_mean", "any"}
    /\ IF m_gradient_update
       THEN UNCHANGED <<deriv, m_gradient_update, m_hash, deriv_current>>
       ELSE LET r == update_deriv_result(m_ktrtr, m_log_scale, m_W, m_sW, m_d3lp, m_L)
            IN  /\ m_Z' = r.Z /\ m_g' = r.g /\ m_dfhat' = r.dfhat
                /\ Z_branch' = r.branch
                /\ m_gradient_update' = TRUE
                /\ update_parameter_hash
                /\ deriv_current' = TRUE
    /\ ret' = [call |-> "posterior_mean", val |-> VSub(m_mu, m_mean),
               branch |-> "none", fresh |-> mode_current]
    /\ pc' = "idle" /\ caller' = "none"
    /\ UNCHANGED <<inputs, hypers, cached, mode, m_Psi, chol, locals,
                   changes, fo_steps, mode_current>>

\* ------------------------------------------------------------ gradient calls
\* the four per-hyperparameter gradient functions, called on an object whose
\* Z, g and dfhat have been computed at least once; they read the members as
\* they are.  dK and dmu come from the kernel and mean collaborators.
GradientValue(kind) ==
    CASE kind = "kernel" ->
            get_derivative_wrt_kernel(m_ktrtr, m_log_scale, m_kernel, m_Z, m_dfhat,
                                      m_dlp, m_alpha)
      [] kind = "inference_method" ->
            get_derivative_wrt_inference_method(m_ktrtr, m_log_scale, m_Z, m_dfhat,
                                                m_dlp, m_alpha)
      [] kind = "likelihood_model" ->
            get_derivative_wrt_likelihood_model(m_model, m_labels, m_ktrtr, m_log_scale,
                                                m_Z, m_g, m_dfhat, m_mu)
      [] kind = "mean" ->
            get_derivative_wrt_mean(m_ktrtr, m_log_scale, Vec(1, 1), m_Z, m_dfhat, m_alpha)
GradientKinds == {"kernel", "inference_method", "likelihood_model", "mean"}
ParamNames == {"log_scale", "other"}

\* the gradient call with the name test of line 622 placed after the
\* computation: a rejected call still hands out a value
GetDerivative_ComputeFirst(kind, name) ==
    /\ pc = "idle" /\ m_Z # <<>>
    /\ kind = "inference_method" \/ name = "other"
    /\ ret' = [call |-> IF kind = "inference_method" /\ name # "log_scale"
                        THEN "invalid_argument" ELSE kind,
               val |-> <<GradientValue(kind)>>, branch |-> "none",
               fresh |-> mode_current /\ deriv_current]
    /\ UNCHANGED <<inputs, hypers, cached, m_hash, mode, m_Psi, chol, deriv,
                   m_gradient_update, locals, pc, caller, changes, fo_steps,
                   mode_current, deriv_current>>
GetDerivative(kind, name) ==
    /\ pc = "idle" /\ m_Z # <<>>
    /\ kind = "inference_method" \/ name = "other"
    /\ ret' = IF kind = "inference_method" /\ name # "log_scale"
              THEN [call |-> "invalid_argument", val |-> <<>>, branch |-> "none",
                    fresh |-> TRUE]
              ELSE [call |-> kind, val |-> <<GradientValue(kind)>>, branch |-> "none",
                    fresh |-> mode_current /\ deriv_current]
    /\ UNCHANGED <<inputs, hypers, cached, m_hash, mode, m_Psi, chol, deriv,
                   m_gradient_update, locals, pc, caller, changes, fo_steps,
                   mode_current, deriv_current>>

\* ------------------------------------------------------------ specification
Next ==
    \/ SetHyper
    \/ \E c \in PublicCalls : Call(c)
    \/ UpdateInit
    \/ NewtonEnter
    \/ NewtonIter
    \/ NewtonExit
    \/ FirstOrderEnter
    \/ FirstOrderStep
    \/ FirstOrderExit
    \/ UpdateChol
    \/ RetUpdate
    \/ RetNlml
    \/ RetDiag
    \/ RetPosteriorMean
    \/ \E kind \in GradientKinds, name \in ParamNames : GetDerivative(kind, name)

Spec == Init /\ [][Next]_vars

\* ------------------------------------------------------------ properties
\* minimize() has left its loop and not yet been followed by update_chol()
AtLoopExit == pc = "update_chol" /\ m_minimizer = "newton"
\* a line search of the current minimize() run has just returned
AfterLineSearch == pc = "newton" /\ iter > 0

\* C1, as stated: the loop stops only when |Psi_Old - Psi_New| <= m_tolerance
\* or iter has reached m_iter (read on finite values of Psi)
C1_StopsOnlyWithinTolerance ==
    (AtLoopExit /\ Finite(Psi_Old) /\ Finite(Psi_New))
        => (Abs(Psi_Old - Psi_New) <= m_tolerance \/ iter >= m_iter)
\* C1, amended: the loop stops only when the signed difference
\* Psi_Old - Psi_New is not above m_tolerance (an increase of Psi of any size
\* included) or iter has reached m_iter
C1_StopsOnlyWithoutDecrease ==
    AtLoopExit => (~FGt(FSub(Psi_Old, Psi_New), m_tolerance) \/ iter >= m_iter)
\* the loop has stopped below the cap on an increase of Psi above m_tolerance
C1_StoppedOnIncrease ==
    /\ AtLoopExit /\ iter < m_iter
    /\ Finite(Psi_Old) /\ Finite(Psi_New)
    /\ Psi_New - Psi_Old > m_tolerance

\* C2: after each line search alpha is start_alpha + x*dalpha for the x that
\* local_min() returned, f, dlp and W are the values computed from that alpha,
\* and Psi_New is the objective there
C2_ModeBelongsToWinner ==
    AfterLineSearch =>
        LET w == PsiLine([log_scale |-> m_log_scale, K |-> m_ktrtr,
                          dalpha |-> func.dalpha, start_alpha |-> func.start_alpha,
                          m |-> m_mean_f, lik |-> m_model, lab |-> m_labels], x)
        IN  /\ m_alpha = w.alpha /\ m_mu = w.f /\ m_dlp = w.dlp /\ m_W = w.W
            /\ Psi_New = w.result

\* C3: in every Newton iteration the sW taken after the regularization has no
\* NaN entry
C3_sWNotNaN == AfterLineSearch => ~HasNaN(m_sW)

\* C4: in the indefinite branch get_negative_log_marginal_likelihood() takes
\* the determinant of A = I + K*scale^2*diag(W), the matrix update_chol() and
\* update_deriv() invert
C4_NlmlDeterminantOfA ==
    (ret.call = "nlml" /\ ret.branch = "lu")
        => ret.val[3] = Det(IndefiniteA(m_ktrtr, m_log_scale, m_W))

\* C5: once update() has built L, L is the Cholesky factor exactly when
\* min(W) >= 0 and the LU-derived matrix exactly when min(W) < 0 (a W holding
\* NaN is below nothing and takes the Cholesky side), and the branch taken by
\* get_negative_log_marginal_likelihood() and by update_deriv() on that W is
\* the branch that built L
C5_BranchesAgree ==
    (pc \in {"idle", "ret"} /\ L_branch # "none") =>
        /\ L_branch = (IF FLt(MinCoeff(m_W), 0) THEN "lu" ELSE "chol")
        /\ ~HasNaN(m_W) => (L_branch = "chol" <=> MinCoeff(m_W) >= 0)
        /\ m_W = VNeg(m_d2lp)
        /\ ret.call = "nlml" => ret.branch = L_branch
        /\ m_gradient_update => Z_branch = L_branch
\* all three sites have taken their branch on a W whose minimum is 0
C5_BoundaryRead ==
    /\ pc = "idle" /\ L_branch = "chol"
    /\ MinCoeff(m_W) = 0
    /\ ret.call = "nlml" /\ m_gradient_update

\* C6: no per-hyperparameter gradient call computes its result from Z, g,
\* dfhat, alpha or dlp that predate the latest hyperparameter change or the
\* latest update()
C6_GradientReadsCurrent == ret.call \in GradientKinds => ret.fresh

\* C7: the value minimize() returns is not greater than the Psi the run
\* started from nor than the Psi of the iteration before the last (read on
\* finite values of Psi)
C7_ReturnsBestPsi ==
    (AtLoopExit /\ Finite(min_ret)) =>
        /\ Finite(m_Psi) => min_ret <= m_Psi
        /\ Finite(Psi_Old) => min_ret <= Psi_Old

\* C8: minimize() never runs more than m_iter iterations, it returns Psi_New,
\* and it warns exactly when the loop ended with iter >= m_iter and
\* Psi_Old - Psi_New > m_tolerance
C8_BoundedAndWarned ==
    /\ iter <= m_iter
    /\ AtLoopExit =>
        /\ min_ret = Psi_New
        /\ warned <=> (iter >= m_iter /\ FGt(FSub(Psi_Old, Psi_New), m_tolerance))
\* minimize() has hit the cap without convergence: it has warned and returned
C8_WarnedAtCap == AtLoopExit /\ warned /\ iter = m_iter /\ min_ret = Psi_New

\* C9: after update_init() a zero alpha comes with f = mean and
\* m_Psi = -sum(lp(mean)); alpha has the length of the labels, and is the zero
\* vector when the object held no alpha of that length (it had never been
\* updated); and m_Psi is not greater than -sum(lp(mean))
C9_UpdateInit ==
    pc = "update_alpha" =>
        LET Psi_Def == FNeg(VSum(get_log_probability_f(m_model, m_labels, m_mean_f)))
        IN  /\ m_alpha = ZeroVec => (m_mu = m_mean_f /\ m_Psi = Psi_Def)
            /\ Len(m_alpha) = Len(m_labels)
            /\ L_branch = "none" => m_alpha = ZeroVec
            /\ ~FGt(m_Psi, Psi_Def)
\* update_init() has replaced a stored alpha by the zero start: the dlp of
\* the previous update() was not taken at that update's mean, so its alpha
\* was not zero
C9_ZeroStartWon ==
    /\ pc = "update_alpha" /\ L_branch # "none"
    /\ m_alpha = ZeroVec /\ m_mu = m_mean_f
    /\ m_dlp # get_log_probability_derivative_f(m_model, m_labels, m_hash.mean, 1)

\* C10: when update_alpha() returns, f = K*exp(2*log_scale)*alpha + mean_f
\* for the alpha left in m_alpha, whichever minimizer drove it
C10_MuFromAlpha ==
    pc = "update_chol" =>
        m_mu = VAdd(MatVec(MScale(ExpTwice(m_log_scale), m_ktrtr), m_alpha), m_mean_f)
\* the first-order minimizer has moved alpha under a non-unit amplitude
C10_FirstOrderMoved ==
    /\ pc = "update_chol" /\ m_minimizer = "firstorder"
    /\ m_log_scale # 0 /\ m_alpha # ZeroVec /\ ~HasNaN(m_alpha)

\* ------------------------------------------------------------ build without USE_GPL_SHOGUN
\* The same object compiled without the line search: the #else arms of
\* minimize() (line 261) and update_alpha() (line 540) replace local_min() and
\* the first-order set-up by SG_GPL_ONLY.

\* mean vectors the mean function may hand over, one of them holding a NaN
\* (a NaN feature or mean hyperparameter)
NoGplMeans == Means \cup {Vec(NaN, 0)}
\* SG_GPL_ONLY: the error that leaves update() and the public call
GplOnlyError == [call |-> "gpl_only", val |-> <<>>, branch |-> "none", fresh |-> TRUE]

\* the object after construction, with its hyperparameters as first set
NoGplInit ==
    /\ m_labels \in Labels
    /\ m_model \in Likelihoods
    /\ m_minimizer \in Minimizers
    /\ m_kernel \in Kernels /\ m_mean \in NoGplMeans /\ m_log_scale \in LogScales
    /\ m_ktrtr = <<>> /\ m_mean_f = <<>>
    /\ m_hash = [kernel |-> <<>>, mean |-> <<>>, log_scale |-> 0]
    /\ m_alpha = <<>> /\ m_mu = <<>> /\ m_W = <<>> /\ m_sW = <<>> /\ m_dlp = <<>>
    /\ m_d2lp = <<>> /\ m_d3lp = <<>> /\ m_Psi = 0
    /\ m_L = <<>> /\ L_branch = "none"
    /\ m_Z = <<>> /\ m_g = <<>> /\ m_dfhat = <<>> /\ Z_branch = "none"
    /\ m_gradient_update = FALSE
    /\ Psi_Old = 0 /\ Psi_New = 0 /\ iter = 0 /\ func = NoFunc /\ x = 0
    /\ warned = FALSE /\ min_ret = 0
    /\ pc = "idle" /\ caller = "none" /\ ret = NoRet
    /\ changes = 0 /\ fo_steps = 0
    /\ mode_current = FALSE /\ deriv_current = FALSE

\* one pass through the body of minimize()'s loop: W is regularized, sW and
\* dalpha are computed, and SG_GPL_ONLY stands where local_min() would be called
NoGplNewtonIter ==
    /\ pc = "newton"
    /\ LoopCond(Psi_Old, Psi_New, iter)
    /\ Psi_Old' = Psi_New
    /\ iter' = iter + 1
    /\ \E W \in {Regularize(m_model, m_W, m_dlp)} :
          /\ m_W' = W
          /\ m_sW' = VSqrt(W)
    /\ ret' = GplOnlyError
    /\ pc' = "idle" /\ caller' = "none"
    /\ UNCHANGED <<inputs, hypers, cached, m_hash, m_alpha, m_mu, m_dlp, m_Psi, chol,
                   deriv, m_gradient_update, Psi_New, func, x, warned, min_ret,
                   changes, fo_steps, mode_current, deriv_current>>

\* update_alpha() with a generic FirstOrderMinimizer: after the REQUIRE,
\* SG_GPL_ONLY stands where the cost function would be set up
NoGplFirstOrder ==
    /\ pc = "update_alpha" /\ m_minimizer = "firstorder"
    /\ ret' = GplOnlyError
    /\ pc' = "idle" /\ caller' = "none"
    /\ UNCHANGED <<inputs, hypers, cached, m_hash, mode, m_Psi, chol, deriv,
                   m_gradient_update, locals, changes, fo_steps,
                   mode_current, deriv_current>>

NoGplNext ==
    \/ \E c \in PublicCalls : Call(c)
    \/ UpdateInit
    \/ NewtonEnter
    \/ NoGplNewtonIter
    \/ NewtonExit
    \/ NoGplFirstOrder
    \/ UpdateChol
    \/ RetUpdate
    \/ RetNlml
    \/ RetDiag
    \/ RetPosteriorMean

NoGplSpec == NoGplInit /\ [][NoGplNext]_vars

\* C11: without the line search no update_alpha() run returns normally, so
\* update() never goes on to update_chol()
C11_NeverReturnsNormally == pc # "update_chol"

\* C12: a get_derivative_wrt_inference_method() call rejected for its
\* parameter name produces no result and changes no field of the object
\* (alpha, f, W, sW, dlp, L, Z, g, dfhat, Psi, flags, hash)
C12_BadNameRejected ==
    [][ret'.call = "invalid_argument" =>
          /\ ret'.val = <<>>
          /\ UNCHANGED <<inputs, hypers, cached, m_hash, mode, m_Psi, chol, deriv,
                         m_gradient_update, pc>>]_vars
\* a call has been rejected on an object that holds a mode and Z, g, dfhat
C12_Rejected ==
    /\ ret.call = "invalid_argument" /\ pc = "idle"
    /\ m_Z # <<>> /\ m_alpha # ZeroVec /\ ~HasNaN(m_alpha)

\* the accessors that test the hash themselves
Accessors == {"nlml", "diag"}
\* the order of the parts of update(): update_init(), update_alpha() with
\* either minimizer, update_chol()
UpdateOrder ==
    {<<"idle", "update_init">>, <<"idle", "ret">>, <<"update_init", "update_alpha">>,
     <<"update_alpha", "newton">>, <<"update_alpha", "firstorder">>,
     <<"newton", "update_chol">>, <<"firstorder", "update_chol">>,
     <<"update_chol", "ret">>, <<"ret", "idle">>}

\* C13: get_negative_log_marginal_likelihood() and get_diagonal_vector() run
\* update() exactly when parameter_hash_changed(), and the mode they read was
\* computed from the parameters now in effect (kernel matrix, mean vector and
\* f = K*alpha*scale^2 + mean are those of the current kernel, mean and
\* scale); update() runs update_init(),
\* update_alpha(), update_chol() in that order and ends with m_gradient_update
\* cleared and the hash refreshed; so while nothing changes after an update()
\* the hash stays clean and an accessor call goes straight to its result
C13_LazyAccessors ==
    /\ [](/\ (pc = "ret" /\ caller \in Accessors \cup {"any"}) =>
                /\ ~parameter_hash_changed
                /\ m_ktrtr = m_kernel /\ m_mean_f = m_mean
                /\ m_mu = update_alpha_mu(m_kernel, m_log_scale, m_alpha, m_mean)
          /\ (pc = "idle" /\ mode_current) => ~parameter_hash_changed)
    /\ [][/\ pc' # pc => <<pc, pc'>> \in UpdateOrder
          /\ (pc = "idle" /\ pc' # "idle") =>
                /\ parameter_hash_changed => (pc' = "update_init" /\ caller' = "any")
                /\ ~parameter_hash_changed =>
                      ((pc' = "update_init") <=> (caller' = "update"))
          /\ (pc = "update_chol" /\ pc' = "ret") =>
                (~m_gradient_update' /\ m_hash' = [kernel |-> m_kernel, mean |-> m_mean,
                                                   log_scale |-> m_log_scale])
          /\ pc \in {"update_init", "update_alpha", "newton", "firstorder"} =>
                UNCHANGED <<hypers, m_hash, m_gradient_update>>]_vars
\* an accessor has been called on unchanged parameters after an update() and
\* is about to return without having run update()
C13_SecondCallSkipsUpdate ==
    /\ pc = "ret" /\ caller \in Accessors
    /\ L_branch # "none" /\ mode_current

\* update() has just run to its end
AfterUpdate == pc = "ret" /\ caller \in {"update", "any"}
\* C14: after update() the stored m_Psi is the objective
\* alpha.(f - mean)/2 - sum log p(y|f) at the alpha and f that mode finding
\* left (read on finite values)
C14_PsiOfFinalMode ==
    AfterUpdate =>
        \A final \in {PsiOf(m_model, m_labels, m_alpha, m_mu, m_mean_f)} :
            (Finite(m_Psi) /\ Finite(final)) => m_Psi = final

====
